---- MODULE Spec2Model ----
(***************************************************************************)
(* Model of src/api/main.py: the RAG API (Milvus + Ollama).                *)
(*                                                                         *)
(*   SpecChunk    chunk_text, one step per iteration of its paragraph loop *)
(*   SpecPdf      read_pdf, one step per extractor call                    *)
(*   Spec         one request handled by the API: /ingest_path,            *)
(*                /ingest_files, /ingest_one or /chat, one step per call   *)
(*                of a collaborator (filesystem, extractor, embedding      *)
(*                backend, collection, generation backend)                 *)
(*   SpecStartup  the module-level startup (connection, collection, index, *)
(*                load) of one process started again and again             *)
(*   SpecRace     the same startup run once by two processes on one store  *)
(***************************************************************************)
EXTENDS Integers, Sequences, FiniteSets, TLC

VARIABLES
    \* ---- chunk_text (src/api/main.py:79-100)
    text,        \* the text argument, a sequence of characters
    chunk_size,  \* the chunk_size argument
    overlap,     \* the overlap argument
    max_chunks,  \* the max_chunks argument: <<>> is None, <<n>> is the integer n
    paras,       \* the local paras
    pidx,        \* how many paragraphs the for loop has consumed
    chunks,      \* the local chunks
    buf,         \* the local buf
    cpc,         \* "off" | "loop" | "done"
    trig,        \* history: trig[j] is the paragraph that seeded chunk j+1
    \* ---- read_pdf (src/api/main.py:53-66)
    ppc,         \* "off" | "primary" | "check" | "secondary" | "done"
    prim,        \* what read_pdf_pypdf did: raised, or returned a text
    sec,         \* what read_pdf_pymupdf did, st = "none" while it was not called
    txt,         \* the local txt; the value returned once ppc = "done"
    \* ---- the request being handled
    op,          \* "none" | "ingest_path" | "ingest_files" | "ingest_one" | "chat"
    pc,          \* where the handler stands
    outcome,     \* what the caller got: status 0 while the handler runs
    err,         \* the exception in flight while pc = "raise", else "none"
    \* ---- ingest_path / ingest_files (src/api/main.py:169-216)
    nfiles,      \* entries of DOCS_DIR.glob("*"), or uploads in the request
    idx,         \* entries the for loop has taken so far; idx is the current one
    kind,        \* suffix of the file in the try block ("none": not examined)
    files,       \* the list files (ingest_path) or saved (ingest_files)
    total,       \* the local total
    raw,         \* the local raw
    parts,       \* len(parts)
    \* ---- embed_texts (src/api/main.py:105-124)
    ntexts,      \* len(texts)
    out,         \* the local out
    attempts,    \* the local attempts
    \* ---- chat (src/api/main.py:244-290)
    hits,        \* len(hits[0]) of the search, -1 before it
    used,        \* the local used
    ctx,         \* how many hit texts were joined into ctx
    chat_attempts, \* the local attempts of chat
    \* ---- history
    processed,   \* the files that entered the try block, in order
    store,       \* the calls made on the collection, in order
    elog,        \* per text of the running embed_texts: backend calls and sleeps
    glog,        \* generation backend calls and sleeps of the chat request
    inserted,    \* records passed to the collection.insert calls that returned
    \* ---- module startup (src/api/main.py:129-156), one copy per process
    spc,         \* "off" | "start" | "collection" | "indexes" | "index" | "load" | "done"
    has_coll,    \* what utility.has_collection(COLLECTION) returned
    has_index,   \* the local has_index
    list_raised, \* history: collection.indexes raised in this startup
    runs,        \* history: startups completed
    \* ---- the vector store the processes share
    coll,        \* the collection "docs" exists
    vindex,      \* an index on the field "vector" exists
    loaded,      \* the collection is loaded
    ncreate,     \* history: create-collection calls received, per process
    nindex,      \* history: create-index calls received, per process
    nload        \* history: load calls received, per process

chunkVars == <<text, chunk_size, overlap, max_chunks, paras, pidx, chunks, buf, cpc, trig>>
pdfVars == <<ppc, prim, sec, txt>>

reqVars == <<op, pc, outcome, err>>
ingestVars == <<nfiles, idx, kind, files, total, raw, parts>>
embedVars == <<ntexts, out, attempts>>
chatVars == <<hits, used, ctx, chat_attempts>>
histVars == <<processed, store, elog, glog, inserted>>

requestVars == <<reqVars, ingestVars, embedVars, chatVars, histVars>>

startVars == <<spc, has_coll, has_index, list_raised, runs, coll, vindex, loaded, ncreate, nindex, nload>>

vars == <<chunkVars, pdfVars, reqVars, ingestVars, embedVars, chatVars, histVars, startVars>>

\* ------------------------------------------------------------------ bounds
MaxTextLen == 5
MaxChunkSize == 3
MaxOverlap == 2
MaxMaxChunks == 2
MaxCore == 50
MaxPad == 1
MaxFiles == 3
MaxParts == 2
MaxStartups == 4

\* ------------------------------------------------------- program constants
MinPdfChars == 20
TOP_K == 4
EmbedMaxAttempts == 3
EmbedBackoff == 2
ChatMaxAttempts == 2
ChatBackoff == 4

\* ------------------------------------------------------------- characters
\* Texts are sequences of one-character strings.  Two letters, and the two
\* whitespace characters that str.split("\n") and str.strip() tell apart.
Letters == {"a", "b"}
Whitespace == {" ", "\n"}
Chars == Letters \cup Whitespace

RECURSIVE SeqsUpTo(_, _)
SeqsUpTo(S, n) ==
    IF n = 0 THEN {<<>>}
    ELSE LET shorter == SeqsUpTo(S, n - 1)
         IN  shorter \cup {Append(s, c) : s \in {x \in shorter : Len(x) = n - 1}, c \in S}

\* str.strip(): leading and trailing whitespace removed
RECURSIVE LStrip(_)
LStrip(s) ==
    IF s = <<>> THEN s
    ELSE IF Head(s) \in Whitespace THEN LStrip(Tail(s)) ELSE s

RECURSIVE RStrip(_)
RStrip(s) ==
    IF s = <<>> THEN s
    ELSE IF s[Len(s)] \in Whitespace THEN RStrip(SubSeq(s, 1, Len(s) - 1)) ELSE s

Strip(s) == RStrip(LStrip(s))

\* str.split("\n"): the pieces between newlines, empty pieces included
RECURSIVE SplitLines(_, _)
SplitLines(s, cur) ==
    IF s = <<>> THEN <<cur>>
    ELSE IF Head(s) = "\n" THEN <<cur>> \o SplitLines(Tail(s), <<>>)
    ELSE SplitLines(Tail(s), Append(cur, Head(s)))

\* paras = [t.strip() for t in text.split("\n") if t.strip()]
RECURSIVE StripNonEmpty(_)
StripNonEmpty(ls) ==
    IF ls = <<>> THEN <<>>
    ELSE IF Strip(Head(ls)) = <<>> THEN StripNonEmpty(Tail(ls))
    ELSE <<Strip(Head(ls))>> \o StripNonEmpty(Tail(ls))

Paragraphs(t) == StripNonEmpty(SplitLines(t, <<>>))

\* an Optional[int] used as a condition: None and 0 are both false
IsSet(opt) == opt # <<>>
Truthy(opt) == opt # <<>> /\ opt[1] # 0

\* mutant of OverlapTail: the head of the buffer, buf[:overlap], is carried
OverlapTailHead(b, ov) ==
    IF ov # 0 /\ Len(b) > ov THEN SubSeq(b, 1, ov) ELSE <<>>

\* buf[-overlap:] if overlap and len(buf) > overlap else ""
OverlapTail(b, ov) ==
    IF ov # 0 /\ Len(b) > ov THEN SubSeq(b, Len(b) - ov + 1, Len(b)) ELSE <<>>

\* (x + "\n" + para).strip()
JoinStrip(x, para) == Strip(x \o <<"\n">> \o para)

\* len(buf) + len(para) + 1 <= chunk_size
Fits(b, para, size) == Len(b) + Len(para) + 1 <= size

\* max_chunks and len(chunks) >= max_chunks
LimitReached(cs, mc) == Truthy(mc) /\ Len(cs) >= mc[1]

\* ---------------------------------------------------------------- chunk_text
ChunkInit ==
    /\ text \in SeqsUpTo(Chars, MaxTextLen)
    /\ chunk_size \in 1..MaxChunkSize
    /\ overlap \in 0..MaxOverlap
    /\ max_chunks \in {<<>>} \cup {<<n>> : n \in 0..MaxMaxChunks}
    /\ paras = Paragraphs(text)
    /\ pidx = 0
    /\ chunks = <<>>
    /\ buf = <<>>
    /\ cpc = "loop"
    /\ trig = <<>>

\* lines 88-90: the paragraph fits, it is packed into the buffer
ChunkPack ==
    /\ cpc = "loop"
    /\ pidx < Len(paras)
    /\ Fits(buf, paras[pidx + 1], chunk_size)
    /\ buf' = JoinStrip(buf, paras[pidx + 1])
    /\ pidx' = pidx + 1
    /\ UNCHANGED <<text, chunk_size, overlap, max_chunks, paras, chunks, cpc, trig>>
    /\ UNCHANGED <<pdfVars, requestVars, startVars>>

\* lines 91-97: the paragraph does not fit; the buffer is flushed (when not
\* empty), the function returns at the max_chunks ceiling, and otherwise the
\* buffer is seeded again with the overlap tail and the paragraph
ChunkFlush ==
    /\ cpc = "loop"
    /\ pidx < Len(paras)
    /\ ~Fits(buf, paras[pidx + 1], chunk_size)
    /\ LET para == paras[pidx + 1]
           flushed == IF buf # <<>> THEN Append(chunks, buf) ELSE chunks
       IN  /\ chunks' = flushed
           /\ IF buf # <<>> /\ LimitReached(flushed, max_chunks)
              THEN /\ cpc' = "done"
                   /\ UNCHANGED <<buf, pidx, trig>>
              ELSE /\ buf' = JoinStrip(OverlapTail(buf, overlap), para)
                   /\ pidx' = pidx + 1
                   /\ trig' = IF buf # <<>> THEN Append(trig, para) ELSE trig
                   /\ cpc' = "loop"
    /\ UNCHANGED <<text, chunk_size, overlap, max_chunks, paras>>
    /\ UNCHANGED <<pdfVars, requestVars, startVars>>

\* lines 98-100: after the loop the last buffer is appended, and chunks returned
ChunkFinish ==
    /\ cpc = "loop"
    /\ pidx = Len(paras)
    /\ chunks' = IF buf # <<>> /\ (~Truthy(max_chunks) \/ Len(chunks) < max_chunks[1])
                 THEN Append(chunks, buf) ELSE chunks
    /\ cpc' = "done"
    /\ UNCHANGED <<text, chunk_size, overlap, max_chunks, paras, pidx, buf, trig>>
    /\ UNCHANGED <<pdfVars, requestVars, startVars>>

ChunkOff ==
    /\ text = <<>> /\ chunk_size = 0 /\ overlap = 0 /\ max_chunks = <<>>
    /\ paras = <<>> /\ pidx = 0 /\ chunks = <<>> /\ buf = <<>>
    /\ cpc = "off" /\ trig = <<>>

\* -------------------------------------------------------------------- read_pdf
\* An extracted text is kept by its shape: who produced it, and how many
\* characters of leading whitespace, of body (first to last non-whitespace
\* character) and of trailing whitespace it has.  The empty string is one
\* value whoever produced it, and a whitespace-only text has one run.
EmptyText == [by |-> "none", lead |-> 0, core |-> 0, trail |-> 0]

MkText(by, l, c, t) ==
    IF l + c + t = 0 THEN EmptyText
    ELSE IF c = 0 THEN [by |-> by, lead |-> l + t, core |-> 0, trail |-> 0]
    ELSE [by |-> by, lead |-> l, core |-> c, trail |-> t]

\* len(t)
TLen(t) == t.lead + t.core + t.trail

\* t.strip()
TStrip(t) == MkText(t.by, 0, t.core, 0)

Raised == [st |-> "raise", text |-> EmptyText]
NotCalled == [st |-> "none", text |-> EmptyText]
Returned(t) == [st |-> "ok", text |-> t]

\* read_pdf_pypdf (lines 38-41): raises, or returns the pages' text joined
PypdfOutcomes(cores, pads) ==
    {Raised} \cup {Returned(MkText("pypdf", l, c, t)) : l \in pads, c \in cores, t \in pads}

\* read_pdf_pymupdf (lines 43-51): raises, or returns the joined text stripped
PymupdfOutcomes(cores) ==
    {Raised} \cup {Returned(TStrip(MkText("pymupdf", 0, c, 0))) : c \in cores}

\* lines 54-58: txt = ""; try: txt = read_pdf_pypdf(...) except Exception: pass
AfterPrimary(po) == IF po.st = "ok" THEN po.text ELSE EmptyText

\* line 59: not txt or len(txt.strip()) < 20
NeedsSecondary(t) == TLen(t) = 0 \/ TLen(TStrip(t)) < MinPdfChars

\* mutant of AfterSecondary: a secondary text of equal trimmed length wins
AfterSecondaryGe(t, so) ==
    IF so.st = "ok" /\ TLen(so.text) # 0 /\ TLen(TStrip(so.text)) >= TLen(TStrip(t))
    THEN so.text ELSE t

\* lines 60-65: txt2 replaces txt when non-empty and strictly longer, trimmed;
\* an exception of the secondary extractor is passed over
AfterSecondary(t, so) ==
    IF so.st = "ok" /\ TLen(so.text) # 0 /\ TLen(TStrip(so.text)) > TLen(TStrip(t))
    THEN so.text ELSE t

\* read_pdf as a whole, for an outcome of each extractor (so is not looked at
\* when the secondary extractor is not called)
ReadPdf(po, so) ==
    IF NeedsSecondary(AfterPrimary(po))
    THEN AfterSecondary(AfterPrimary(po), so) ELSE AfterPrimary(po)

PdfInit ==
    /\ ppc = "primary"
    /\ prim = NotCalled
    /\ sec = NotCalled
    /\ txt = EmptyText

PdfOff ==
    /\ ppc = "off" /\ prim = NotCalled /\ sec = NotCalled /\ txt = EmptyText

\* lines 54-58
PdfPrimary ==
    /\ ppc = "primary"
    /\ \E po \in PypdfOutcomes(0..MaxCore, 0..MaxPad) :
          /\ prim' = po
          /\ txt' = AfterPrimary(po)
    /\ ppc' = "check"
    /\ UNCHANGED sec
    /\ UNCHANGED <<chunkVars, requestVars, startVars>>

\* lines 59-65, the fallback taken
PdfSecondary ==
    /\ ppc = "check"
    /\ NeedsSecondary(txt)
    /\ \E so \in PymupdfOutcomes(0..MaxCore) :
          /\ sec' = so
          /\ txt' = AfterSecondary(txt, so)
    /\ ppc' = "done"
    /\ UNCHANGED prim
    /\ UNCHANGED <<chunkVars, requestVars, startVars>>

\* lines 59 and 66, the fallback not taken
PdfReturn ==
    /\ ppc = "check"
    /\ ~NeedsSecondary(txt)
    /\ ppc' = "done"
    /\ UNCHANGED <<prim, sec, txt>>
    /\ UNCHANGED <<chunkVars, requestVars, startVars>>

\* ------------------------------------------------------------------ requests
NoOutcome == [status |-> 0, detail |-> "", body |-> 0]
\* return IngestReport(inserted=total, files=...)
Report == [status |-> 200, detail |-> "IngestReport", body |-> 0]
\* return {"answer": answer, "used_docs": used}, answer from generation call c
Answer(c) == [status |-> 200, detail |-> "answer", body |-> c]

\* HTTPException(status_code=503, ...) is raised at lines 122, 284 and 289,
\* HTTPException(status_code=404, ...) at line 226; any other exception
\* leaving a handler is answered with status 500
Failure(e) ==
    [status |-> IF e \in {"Embeddings error", "Ollama chat error", "Ollama no devolvio contenido"}
                THEN 503
                ELSE IF e = "NotFound" THEN 404 ELSE 500,
     detail |-> e, body |-> 0]

\* line 237 / 231: IngestReport(inserted=n, files=[...]) of ingest_one
OneReport(n) == [status |-> 200, detail |-> "IngestReport", body |-> n]

\* line 239: HTTPException(status_code=500, detail=f"Ingest error {p.name}: {e}")
IngestError == [status |-> 500, detail |-> "Ingest error", body |-> 0]

Batch == op \in {"ingest_path", "ingest_files"}

\* the exceptions raised inside the try block of the batch loops
InTry == {"ValueError", "read error", "Embeddings error", "embed error", "insert error"}

\* one element of files / saved: p.name (note ""), f"{p.name} (sin texto)" or
\* f"{p.name} (ERROR: {e})", the text of e left out
Entry(name, note) == [name |-> name, note |-> note]

\* history records
NewCalls == [calls |-> 0, fails |-> 0, delays |-> <<>>, res |-> "pending", exc |-> "none"]
InsertCall(f, ok) == [call |-> "insert", file |-> f, ok |-> ok]
FlushCall(ok) == [call |-> "flush", file |-> 0, ok |-> ok]
SearchCall(ok) == [call |-> "search", file |-> 0, ok |-> ok]

\* the embedding the backend returns on call c for text t
Vec(t, c) == <<t, c>>

\* the texts read_txt returns, and the body sizes of the extractors' texts
IngestCores == {0, 1, MinPdfChars}
FileTexts == {MkText("file", l, c, 0) : l \in {0, 1}, c \in IngestCores}

\* len(chunk_text(raw)) with the default arguments: a text without any
\* non-whitespace character has no paragraph and gives no chunk, any other
\* text gives at least one
ChunkCounts(t) == IF t.core = 0 THEN {0} ELSE 1..MaxParts

\* the values of the query parameter max_chunks of ingest_one: None or an int
OneMaxChunks == {<<>>} \cup {<<n>> : n \in 0..MaxMaxChunks}

\* len(chunk_text(raw, max_chunks=mc)): a ceiling that is set and not 0 caps
\* the count (lines 94 and 98), None and 0 do not
ChunkCountsMax(t, mc) ==
    IF t.core = 0 THEN {0}
    ELSE IF Truthy(mc) THEN {n \in 1..MaxParts : n <= mc[1]}
    ELSE 1..MaxParts

ReqInit ==
    /\ op = "none" /\ pc = "idle" /\ outcome = NoOutcome /\ err = "none"
    /\ nfiles = 0 /\ idx = 0 /\ kind = "none" /\ files = <<>> /\ total = 0
    /\ raw = EmptyText /\ parts = 0
    /\ ntexts = 0 /\ out = <<>> /\ attempts = 0
    /\ hits = -1 /\ used = 0 /\ ctx = 0 /\ chat_attempts = 0
    /\ processed = <<>> /\ store = <<>>
    /\ elog = <<>> /\ glog = NewCalls /\ inserted = 0

ReqOff ==
    /\ op = "none" /\ pc = "off" /\ outcome = NoOutcome /\ err = "none"
    /\ nfiles = 0 /\ idx = 0 /\ kind = "none" /\ files = <<>> /\ total = 0
    /\ raw = EmptyText /\ parts = 0
    /\ ntexts = 0 /\ out = <<>> /\ attempts = 0
    /\ hits = -1 /\ used = 0 /\ ctx = 0 /\ chat_attempts = 0
    /\ processed = <<>> /\ store = <<>>
    /\ elog = <<>> /\ glog = NewCalls /\ inserted = 0

\* ---------------------------------------------- ingest_path and ingest_files
\* line 170 / 194: the request arrives; DOCS_DIR holds n entries
StartIngestPath ==
    /\ pc = "idle"
    /\ op' = "ingest_path"
    /\ pc' = "loop"
    /\ nfiles' \in 0..MaxFiles
    /\ UNCHANGED <<outcome, err, idx, kind, files, total, raw, parts>>
    /\ UNCHANGED <<pdfVars, embedVars, chatVars, histVars>>
    /\ UNCHANGED chunkVars
    /\ UNCHANGED startVars

StartIngestFiles ==
    /\ pc = "idle"
    /\ op' = "ingest_files"
    /\ pc' = "loop"
    /\ nfiles' \in 1..MaxFiles
    /\ UNCHANGED <<outcome, err, idx, kind, files, total, raw, parts>>
    /\ UNCHANGED <<pdfVars, embedVars, chatVars, histVars>>
    /\ UNCHANGED chunkVars
    /\ UNCHANGED startVars

\* the next file enters the try block; the locals of the file before it are
\* dead from here on
TakeFile(k) ==
    /\ idx' = idx + 1
    /\ kind' = k
    /\ pc' = "load"
    /\ processed' = Append(processed, idx + 1)
    /\ raw' = EmptyText /\ parts' = 0
    /\ prim' = NotCalled /\ sec' = NotCalled /\ txt' = EmptyText
    /\ ntexts' = 0 /\ out' = <<>> /\ attempts' = 0
    /\ elog' = <<>>
    /\ UNCHANGED <<op, outcome, err, nfiles, files, total, ppc, store, glog>>
    /\ UNCHANGED chatVars
    /\ UNCHANGED chunkVars
    /\ UNCHANGED inserted
    /\ UNCHANGED startVars

\* lines 173-175: an entry with another suffix is passed over
ScanSkip ==
    /\ pc = "loop" /\ op = "ingest_path"
    /\ idx < nfiles
    /\ idx' = idx + 1
    /\ kind' = ".other"
    /\ UNCHANGED <<op, pc, outcome, err, nfiles, files, total, raw, parts>>
    /\ UNCHANGED <<pdfVars, embedVars, chatVars, histVars>>
    /\ UNCHANGED chunkVars
    /\ UNCHANGED startVars

\* lines 173-176: an entry with suffix .pdf, .txt or .md
ScanTake ==
    /\ pc = "loop" /\ op = "ingest_path"
    /\ idx < nfiles
    /\ \E k \in {".pdf", ".txt", ".md"} : TakeFile(k)

\* lines 197-201: the upload is read and written to DOCS_DIR
UploadSave ==
    /\ pc = "loop" /\ op = "ingest_files"
    /\ idx < nfiles
    /\ \E k \in {".pdf", ".txt", ".md", ".other"} : TakeFile(k)

\* lines 198-200: f.read() or dest.write_bytes(content) raises (a filename
\* naming a directory that does not exist, say); both stand before the try
UploadSaveFails ==
    /\ pc = "loop" /\ op = "ingest_files"
    /\ idx < nfiles
    /\ idx' = idx + 1
    /\ kind' = "none"
    /\ err' = "save error"
    /\ pc' = "raise"
    /\ UNCHANGED <<op, outcome, nfiles, files, total, raw, parts>>
    /\ UNCHANGED <<pdfVars, embedVars, chatVars, histVars>>
    /\ UNCHANGED chunkVars
    /\ UNCHANGED startVars

\* lines 73-74 and 68-69: read_txt returns the text, or raises
LoadTxt ==
    /\ pc = "load" /\ kind \in {".txt", ".md"}
    /\ \E r \in {Raised} \cup {Returned(t) : t \in FileTexts} :
          IF r.st = "ok"
          THEN raw' = r.text /\ pc' = "chunk" /\ err' = err
          ELSE raw' = raw /\ pc' = "raise" /\ err' = "read error"
    /\ UNCHANGED <<op, outcome, nfiles, idx, kind, files, total, parts>>
    /\ UNCHANGED <<pdfVars, embedVars, chatVars, histVars>>
    /\ UNCHANGED chunkVars
    /\ UNCHANGED startVars

\* mutant of LoadPdf: an exception of the primary extractor leaves read_pdf
LoadPdfPropagates ==
    /\ pc = "load" /\ kind = ".pdf"
    /\ \E po \in PypdfOutcomes(IngestCores, {0}), so \in PymupdfOutcomes(IngestCores) :
          /\ prim' = po
          /\ sec' = IF po.st = "ok" /\ NeedsSecondary(AfterPrimary(po)) THEN so ELSE NotCalled
          /\ txt' = IF po.st = "ok" THEN ReadPdf(po, so) ELSE EmptyText
          /\ raw' = IF po.st = "ok" THEN ReadPdf(po, so) ELSE EmptyText
          /\ pc' = IF po.st = "ok" THEN "chunk" ELSE "raise"
          /\ err' = IF po.st = "ok" THEN err ELSE "read error"
    /\ UNCHANGED <<op, outcome, nfiles, idx, kind, files, total, parts, ppc>>
    /\ UNCHANGED <<embedVars, chatVars, histVars>>
    /\ UNCHANGED chunkVars
    /\ UNCHANGED startVars

\* lines 75-76 and 53-66: read_pdf, whatever the extractors do
LoadPdf ==
    /\ pc = "load" /\ kind = ".pdf"
    /\ \E po \in PypdfOutcomes(IngestCores, {0}), so \in PymupdfOutcomes(IngestCores) :
          /\ prim' = po
          /\ sec' = IF NeedsSecondary(AfterPrimary(po)) THEN so ELSE NotCalled
          /\ txt' = ReadPdf(po, so)
          /\ raw' = ReadPdf(po, so)
    /\ pc' = "chunk"
    /\ UNCHANGED <<op, outcome, err, nfiles, idx, kind, files, total, parts, ppc>>
    /\ UNCHANGED <<embedVars, chatVars, histVars>>
    /\ UNCHANGED chunkVars
    /\ UNCHANGED startVars

\* line 77: raise ValueError(f"Tipo de archivo no soportado: {ext}")
LoadUnsupported ==
    /\ pc = "load" /\ kind \notin {".txt", ".md", ".pdf"}
    /\ err' = "ValueError"
    /\ pc' = "raise"
    /\ UNCHANGED <<op, outcome, nfiles, idx, kind, files, total, raw, parts>>
    /\ UNCHANGED <<pdfVars, embedVars, chatVars, histVars>>
    /\ UNCHANGED chunkVars
    /\ UNCHANGED startVars

\* lines 178-181 / 203-206: no chunk, the file is listed "(sin texto)"
ChunkNoText ==
    /\ pc = "chunk" /\ Batch
    /\ 0 \in ChunkCounts(raw)
    /\ parts' = 0
    /\ files' = Append(files, Entry(idx, "sin texto"))
    /\ pc' = "loop"
    /\ UNCHANGED <<op, outcome, err, nfiles, idx, kind, total, raw>>
    /\ UNCHANGED <<pdfVars, embedVars, chatVars, histVars>>
    /\ UNCHANGED chunkVars
    /\ UNCHANGED startVars

\* lines 178-182 / 203-207: n chunks, embed_texts(parts) is entered; the
\* suffix and the extracted text are not read again for this file
ChunkToEmbed ==
    /\ pc = "chunk" /\ Batch
    /\ \E n \in ChunkCounts(raw) \ {0} :
          /\ parts' = n
          /\ ntexts' = n
    /\ out' = <<>>
    /\ attempts' = 0
    /\ elog' = <<NewCalls>>
    /\ pc' = "embed"
    /\ kind' = "none" /\ raw' = EmptyText
    /\ prim' = NotCalled /\ sec' = NotCalled /\ txt' = EmptyText
    /\ UNCHANGED <<op, outcome, err, nfiles, idx, files, total, ppc>>
    /\ UNCHANGED <<chatVars, processed, store, glog>>
    /\ UNCHANGED chunkVars
    /\ UNCHANGED inserted
    /\ UNCHANGED startVars

\* mutant of InsertOk: total counts the files inserted, not their records
InsertOkCountsFiles ==
    /\ pc = "insert" /\ Batch
    /\ store' = Append(store, InsertCall(idx, TRUE))
    /\ inserted' = inserted + Len(out)
    /\ total' = total + 1
    /\ files' = Append(files, Entry(idx, ""))
    /\ pc' = "loop"
    /\ UNCHANGED <<op, outcome, err, nfiles, idx, kind, raw, parts>>
    /\ UNCHANGED <<pdfVars, embedVars, chatVars, processed, elog, glog>>
    /\ UNCHANGED chunkVars
    /\ UNCHANGED startVars

\* lines 183-187 / 208-212: the ids, collection.insert, the count, the name
InsertOk ==
    /\ pc = "insert" /\ Batch
    /\ store' = Append(store, InsertCall(idx, TRUE))
    /\ inserted' = inserted + Len(out)
    /\ total' = total + parts
    /\ files' = Append(files, Entry(idx, ""))
    /\ pc' = "loop"
    /\ UNCHANGED <<op, outcome, err, nfiles, idx, kind, raw, parts>>
    /\ UNCHANGED <<pdfVars, embedVars, chatVars, processed, elog, glog>>
    /\ UNCHANGED chunkVars
    /\ UNCHANGED startVars

\* line 185 / 210: collection.insert raises
InsertRaises ==
    /\ pc = "insert" /\ Batch
    /\ store' = Append(store, InsertCall(idx, FALSE))
    /\ err' = "insert error"
    /\ pc' = "raise"
    /\ UNCHANGED <<op, outcome, nfiles, idx, kind, files, total, raw, parts>>
    /\ UNCHANGED <<pdfVars, embedVars, chatVars, processed, elog, glog>>
    /\ UNCHANGED chunkVars
    /\ UNCHANGED inserted
    /\ UNCHANGED startVars

\* mutant of CatchInFile: the exception ends the run, as in ingest_one
CatchInFileAborts ==
    /\ pc = "raise" /\ Batch
    /\ err \in InTry
    /\ outcome' = Failure(err)
    /\ pc' = "done"
    /\ UNCHANGED <<op, err, nfiles, idx, kind, files, total, raw, parts>>
    /\ UNCHANGED <<pdfVars, embedVars, chatVars, histVars>>
    /\ UNCHANGED chunkVars
    /\ UNCHANGED startVars

\* lines 188-189 / 213-214: except Exception as e, the file is listed as an
\* error and the loop goes on
CatchInFile ==
    /\ pc = "raise" /\ Batch
    /\ err \in InTry
    /\ files' = Append(files, Entry(idx, "ERROR"))
    /\ err' = "none"
    /\ pc' = "loop"
    /\ UNCHANGED <<op, outcome, nfiles, idx, kind, total, raw, parts>>
    /\ UNCHANGED <<pdfVars, embedVars, chatVars, histVars>>
    /\ UNCHANGED chunkVars
    /\ UNCHANGED startVars

\* lines 190-191 / 215-216: after the loop, collection.flush() and the report
Flush ==
    /\ pc = "loop" /\ Batch
    /\ idx = nfiles
    /\ \E ok \in BOOLEAN :
          /\ store' = Append(store, FlushCall(ok))
          /\ IF ok THEN outcome' = Report /\ pc' = "done" /\ err' = err
                   ELSE outcome' = outcome /\ pc' = "raise" /\ err' = "flush error"
    /\ UNCHANGED <<op, nfiles, idx, kind, files, total, raw, parts>>
    /\ UNCHANGED <<pdfVars, embedVars, chatVars, processed, elog, glog>>
    /\ UNCHANGED chunkVars
    /\ UNCHANGED inserted
    /\ UNCHANGED startVars

\* ------------------------------------------------------------------ ingest_one
\* lines 219-226: the request arrives with its max_chunks; a file that does
\* not exist raises HTTPException(404) before the try of line 227
StartIngestOne ==
    /\ pc = "idle"
    /\ op' = "ingest_one"
    /\ max_chunks' \in OneMaxChunks
    /\ \E exists \in BOOLEAN :
          IF exists
          THEN /\ \E k \in {".pdf", ".txt", ".md", ".other"} : kind' = k
               /\ processed' = <<1>>
               /\ pc' = "load"
               /\ err' = err
          ELSE /\ kind' = kind
               /\ processed' = processed
               /\ pc' = "raise"
               /\ err' = "NotFound"
    /\ UNCHANGED <<outcome, nfiles, idx, files, total, raw, parts>>
    /\ UNCHANGED <<pdfVars, embedVars, chatVars, store, elog, glog>>
    /\ UNCHANGED <<text, chunk_size, overlap, paras, pidx, chunks, buf, cpc, trig>>
    /\ UNCHANGED inserted
    /\ UNCHANGED startVars

\* lines 229-231: chunk_text(raw, max_chunks=max_chunks) gives no chunk, the
\* report lists the file "(sin texto)"
OneNoText ==
    /\ pc = "chunk" /\ op = "ingest_one"
    /\ 0 \in ChunkCountsMax(raw, max_chunks)
    /\ parts' = 0
    /\ files' = <<Entry(1, "sin texto")>>
    /\ outcome' = OneReport(0)
    /\ pc' = "done"
    /\ UNCHANGED <<op, err, nfiles, idx, kind, total, raw>>
    /\ UNCHANGED <<pdfVars, embedVars, chatVars, histVars>>
    /\ UNCHANGED chunkVars
    /\ UNCHANGED startVars

\* lines 229-232: n chunks, embed_texts(parts) is entered
OneToEmbed ==
    /\ pc = "chunk" /\ op = "ingest_one"
    /\ \E n \in ChunkCountsMax(raw, max_chunks) \ {0} :
          /\ parts' = n
          /\ ntexts' = n
    /\ out' = <<>>
    /\ attempts' = 0
    /\ elog' = <<NewCalls>>
    /\ pc' = "embed"
    /\ kind' = "none" /\ raw' = EmptyText
    /\ prim' = NotCalled /\ sec' = NotCalled /\ txt' = EmptyText
    /\ UNCHANGED <<op, outcome, err, nfiles, idx, files, total, ppc>>
    /\ UNCHANGED <<chatVars, processed, store, glog>>
    /\ UNCHANGED chunkVars
    /\ UNCHANGED inserted
    /\ UNCHANGED startVars

\* lines 233-235: the ids and collection.insert, which returns or raises
OneInsert ==
    /\ pc = "insert" /\ op = "ingest_one"
    /\ \E ok \in BOOLEAN :
          /\ store' = Append(store, InsertCall(1, ok))
          /\ IF ok THEN pc' = "flush" /\ err' = err /\ inserted' = inserted + Len(out)
                   ELSE pc' = "raise" /\ err' = "insert error" /\ inserted' = inserted
    /\ UNCHANGED <<op, outcome, nfiles, idx, kind, files, total, raw, parts>>
    /\ UNCHANGED <<pdfVars, embedVars, chatVars, processed, elog, glog>>
    /\ UNCHANGED chunkVars
    /\ UNCHANGED startVars

\* lines 236-237: collection.flush(), then the report with len(ids)
OneFlush ==
    /\ pc = "flush" /\ op = "ingest_one"
    /\ \E ok \in BOOLEAN :
          /\ store' = Append(store, FlushCall(ok))
          /\ IF ok THEN /\ outcome' = OneReport(parts)
                        /\ files' = <<Entry(1, "")>>
                        /\ pc' = "done" /\ err' = err
                   ELSE /\ outcome' = outcome
                        /\ files' = files
                        /\ pc' = "raise" /\ err' = "flush error"
    /\ UNCHANGED <<op, nfiles, idx, kind, total, raw, parts>>
    /\ UNCHANGED <<pdfVars, embedVars, chatVars, processed, elog, glog>>
    /\ UNCHANGED chunkVars
    /\ UNCHANGED inserted
    /\ UNCHANGED startVars

\* lines 238-239: except Exception as e catches whatever the try block
\* raised, the HTTPException(503) of embed_texts included (HTTPException is
\* an Exception), and raises HTTPException(500) in its place
OneCatch ==
    /\ pc = "raise" /\ op = "ingest_one"
    /\ err # "NotFound"
    /\ outcome' = IngestError
    /\ pc' = "done"
    /\ UNCHANGED <<op, err>>
    /\ UNCHANGED <<pdfVars, ingestVars, embedVars, chatVars, histVars>>
    /\ UNCHANGED chunkVars
    /\ UNCHANGED startVars

\* an exception no handler of the request catches ends it
Unhandled ==
    /\ pc = "raise"
    /\ ~(Batch /\ err \in InTry)
    /\ ~(op = "ingest_one" /\ err # "NotFound")
    /\ outcome' = Failure(err)
    /\ pc' = "done"
    /\ UNCHANGED <<op, err>>
    /\ UNCHANGED <<pdfVars, ingestVars, embedVars, chatVars, histVars>>
    /\ UNCHANGED chunkVars
    /\ UNCHANGED startVars

\* ---------------------------------------------------------------- embed_texts
\* mutant of EmbedExhausted: the ceiling test reads attempts > 3
EmbedExhaustedLate(a) == a > EmbedMaxAttempts

\* line 121: attempts >= 3
EmbedExhausted(a) == a >= EmbedMaxAttempts

\* line 123: time.sleep(2 * attempts)
EmbedDelay(a) == EmbedBackoff * a

\* the text the while loop is working on
CurText == Len(out) + 1

\* mutant of EmbedCallOk: out is returned after the first vector
EmbedCallOkReturnsEarly ==
    /\ pc = "embed"
    /\ LET t == CurText
           c == elog[t].calls + 1
           done == [elog EXCEPT ![t].calls = c, ![t].res = "ok", ![t].exc = "none"]
       IN  /\ out' = Append(out, Vec(t, c))
           /\ attempts' = attempts
           /\ elog' = done
           /\ pc' = IF op = "chat" THEN "search" ELSE "insert"
    /\ UNCHANGED <<op, outcome, err, ntexts>>
    /\ UNCHANGED <<pdfVars, ingestVars, chatVars, processed, store, glog>>
    /\ UNCHANGED chunkVars
    /\ UNCHANGED inserted
    /\ UNCHANGED startVars

\* mutant of EmbedCallOk: attempts is set to 0 once, before the for loop, so
\* the texts share one budget
EmbedCallOkSharedBudget ==
    /\ pc = "embed"
    /\ LET t == CurText
           c == elog[t].calls + 1
           done == [elog EXCEPT ![t].calls = c, ![t].res = "ok", ![t].exc = "none"]
       IN  /\ out' = Append(out, Vec(t, c))
           /\ attempts' = attempts
           /\ IF t < ntexts
              THEN /\ elog' = Append(done, NewCalls)
                   /\ pc' = "embed"
              ELSE /\ elog' = done
                   /\ pc' = IF op = "chat" THEN "search" ELSE "insert"
    /\ UNCHANGED <<op, outcome, err, ntexts>>
    /\ UNCHANGED <<pdfVars, ingestVars, chatVars, processed, store, glog>>
    /\ UNCHANGED chunkVars
    /\ UNCHANGED inserted
    /\ UNCHANGED startVars

\* lines 110-118: the call succeeds and its vector is appended; then the next
\* text starts with attempts = 0 (lines 107-108), or out is returned (line 124)
\* to ingest (line 182 / 207) or to chat (line 247)
EmbedCallOk ==
    /\ pc = "embed"
    /\ LET t == CurText
           c == elog[t].calls + 1
           done == [elog EXCEPT ![t].calls = c, ![t].res = "ok", ![t].exc = "none"]
       IN  /\ out' = Append(out, Vec(t, c))
           /\ IF t < ntexts
              THEN /\ attempts' = 0
                   /\ elog' = Append(done, NewCalls)
                   /\ pc' = "embed"
              ELSE /\ attempts' = attempts
                   /\ elog' = done
                   /\ pc' = IF op = "chat" THEN "search" ELSE "insert"
    /\ UNCHANGED <<op, outcome, err, ntexts>>
    /\ UNCHANGED <<pdfVars, ingestVars, chatVars, processed, store, glog>>
    /\ UNCHANGED chunkVars
    /\ UNCHANGED inserted
    /\ UNCHANGED startVars

\* line 119: the exceptions the except clause names. ReadTimeout and the
\* connection errors are "network"; RequestException is the base class of every
\* exception of requests, so the HTTPError that raise_for_status (line 116)
\* raises for a 4xx / 5xx answer of the backend is caught as well
Caught == {"network", "http status"}

\* lines 119-123: a caught exception; the third one raises HTTPException(503),
\* the ones before it sleep and try again
EmbedCallFails ==
    /\ pc = "embed"
    /\ \E k \in Caught :
       LET t == CurText
           a == attempts + 1
           failed == [elog EXCEPT ![t].calls = @ + 1, ![t].fails = @ + 1, ![t].exc = k]
       IN  /\ attempts' = a
           /\ IF EmbedExhausted(a)
              THEN /\ elog' = [failed EXCEPT ![t].res = "unavailable"]
                   /\ err' = "Embeddings error"
                   /\ pc' = "raise"
              ELSE /\ elog' = [failed EXCEPT ![t].delays = Append(@, EmbedDelay(a))]
                   /\ err' = err
                   /\ pc' = "embed"
    /\ UNCHANGED <<op, outcome, ntexts, out>>
    /\ UNCHANGED <<pdfVars, ingestVars, chatVars, processed, store, glog>>
    /\ UNCHANGED chunkVars
    /\ UNCHANGED inserted
    /\ UNCHANGED startVars

\* mutant of EmbedCallErrors: the KeyError is handled like a caught exception
EmbedCallErrorsRetried ==
    /\ pc = "embed"
    /\ elog' = [elog EXCEPT ![CurText].calls = @ + 1, ![CurText].res = "error",
                            ![CurText].exc = "KeyError",
                            ![CurText].delays = Append(@, EmbedDelay(attempts + 1))]
    /\ err' = err
    /\ pc' = "embed"
    /\ UNCHANGED <<op, outcome, ntexts, out, attempts>>
    /\ UNCHANGED <<pdfVars, ingestVars, chatVars, processed, store, glog>>
    /\ UNCHANGED chunkVars
    /\ UNCHANGED inserted
    /\ UNCHANGED startVars

\* line 117: an exception the except clause does not name (the KeyError of a
\* response body without an "embedding" key) leaves embed_texts at once
EmbedCallErrors ==
    /\ pc = "embed"
    /\ elog' = [elog EXCEPT ![CurText].calls = @ + 1, ![CurText].res = "error",
                            ![CurText].exc = "KeyError"]
    /\ err' = "embed error"
    /\ pc' = "raise"
    /\ UNCHANGED <<op, outcome, ntexts, out, attempts>>
    /\ UNCHANGED <<pdfVars, ingestVars, chatVars, processed, store, glog>>
    /\ UNCHANGED chunkVars
    /\ UNCHANGED inserted
    /\ UNCHANGED startVars

\* ------------------------------------------------------------------------ chat
\* mutant of ChatExhausted: the ceiling test reads attempts > 2
ChatExhaustedLate(a) == a > ChatMaxAttempts

\* line 288: attempts >= 2
ChatExhausted(a) == a >= ChatMaxAttempts

\* line 290: time.sleep(4 * attempts)
ChatDelay(a) == ChatBackoff * a

\* lines 245-247: the request arrives and embed_texts([q.question]) is entered
StartChat ==
    /\ pc = "idle"
    /\ op' = "chat"
    /\ pc' = "embed"
    /\ ntexts' = 1
    /\ out' = <<>>
    /\ attempts' = 0
    /\ elog' = <<NewCalls>>
    /\ UNCHANGED <<outcome, err>>
    /\ UNCHANGED <<pdfVars, ingestVars, chatVars, processed, store, glog>>
    /\ UNCHANGED chunkVars
    /\ UNCHANGED inserted
    /\ UNCHANGED startVars

\* lines 251-257: len(hits[0]) of a search with limit=lim (0 also stands for
\* an empty result list)
SearchHits(lim) == 0..lim

\* mutant of UsedDocs: the limit of the search is reported
UsedDocsLimit(h) == IF h > 0 THEN TOP_K ELSE 0

\* lines 259-262: used = len(hits[0]) when there is a hit, else the initial 0
UsedDocs(h) == IF h > 0 THEN h ELSE 0

\* lines 258-261: how many hit texts "\n\n".join puts into ctx; ctx stays ""
\* without a hit
CtxTexts(h) == IF h > 0 THEN h ELSE 0

\* lines 250-262 and 276: the search returns at most TOP_K hits; their texts
\* make the context, their number is used
SearchOk ==
    /\ pc = "search"
    /\ \E h \in SearchHits(TOP_K) :
          /\ hits' = h
          /\ ctx' = CtxTexts(h)
          /\ used' = UsedDocs(h)
    /\ chat_attempts' = 0
    /\ store' = Append(store, SearchCall(TRUE))
    /\ pc' = "generate"
    /\ UNCHANGED <<op, outcome, err>>
    /\ UNCHANGED <<pdfVars, ingestVars, embedVars, processed, elog, glog>>
    /\ UNCHANGED chunkVars
    /\ UNCHANGED inserted
    /\ UNCHANGED startVars

\* line 251: collection.search raises
SearchRaises ==
    /\ pc = "search"
    /\ store' = Append(store, SearchCall(FALSE))
    /\ err' = "search error"
    /\ pc' = "raise"
    /\ UNCHANGED <<op, outcome>>
    /\ UNCHANGED <<pdfVars, ingestVars, embedVars, chatVars, processed, elog, glog>>
    /\ UNCHANGED chunkVars
    /\ UNCHANGED inserted
    /\ UNCHANGED startVars

\* lines 279-285: the backend answers with content, which is returned
GenAnswer ==
    /\ pc = "generate"
    /\ glog' = [glog EXCEPT !.calls = @ + 1, !.res = "ok"]
    /\ outcome' = Answer(glog.calls + 1)
    /\ pc' = "done"
    /\ UNCHANGED <<op, err>>
    /\ UNCHANGED <<pdfVars, ingestVars, embedVars, chatVars, processed, store, elog>>
    /\ UNCHANGED chunkVars
    /\ UNCHANGED inserted
    /\ UNCHANGED startVars

\* mutant of GenEmpty: the empty answer is taken by the except clause, as a
\* failed attempt
GenEmptyRetried ==
    /\ pc = "generate"
    /\ LET a == chat_attempts + 1
           failed == [glog EXCEPT !.calls = @ + 1, !.res = "empty"]
       IN  /\ chat_attempts' = a
           /\ IF ChatExhausted(a)
              THEN /\ glog' = failed
                   /\ err' = "Ollama no devolvio contenido"
                   /\ pc' = "raise"
              ELSE /\ glog' = [failed EXCEPT !.delays = Append(@, ChatDelay(a))]
                   /\ err' = err
                   /\ pc' = "generate"
    /\ UNCHANGED <<op, outcome, hits, used, ctx>>
    /\ UNCHANGED <<pdfVars, ingestVars, embedVars, processed, store, elog>>
    /\ UNCHANGED chunkVars
    /\ UNCHANGED inserted
    /\ UNCHANGED startVars

\* lines 282-284: the backend answers without content; HTTPException(503) is
\* raised inside the try, and the except clause (ReadTimeout,
\* RequestException) does not name it
GenEmpty ==
    /\ pc = "generate"
    /\ glog' = [glog EXCEPT !.calls = @ + 1, !.res = "empty"]
    /\ err' = "Ollama no devolvio contenido"
    /\ pc' = "raise"
    /\ UNCHANGED <<op, outcome>>
    /\ UNCHANGED <<pdfVars, ingestVars, embedVars, chatVars, processed, store, elog>>
    /\ UNCHANGED chunkVars
    /\ UNCHANGED inserted
    /\ UNCHANGED startVars

\* mutant of GenFails: the retry goes back to the search
GenFailsSearchesAgain ==
    /\ pc = "generate"
    /\ LET a == chat_attempts + 1
           failed == [glog EXCEPT !.calls = @ + 1, !.fails = @ + 1]
       IN  /\ chat_attempts' = a
           /\ IF ChatExhausted(a)
              THEN /\ glog' = [failed EXCEPT !.res = "unavailable"]
                   /\ err' = "Ollama chat error"
                   /\ pc' = "raise"
              ELSE /\ glog' = [failed EXCEPT !.delays = Append(@, ChatDelay(a))]
                   /\ err' = err
                   /\ pc' = "search"
    /\ UNCHANGED <<op, outcome, hits, used, ctx>>
    /\ UNCHANGED <<pdfVars, ingestVars, embedVars, processed, store, elog>>
    /\ UNCHANGED chunkVars
    /\ UNCHANGED inserted
    /\ UNCHANGED startVars

\* lines 286-290: ReadTimeout or another RequestException; the second one
\* raises HTTPException(503), the first sleeps and tries again
GenFails ==
    /\ pc = "generate"
    /\ LET a == chat_attempts + 1
           failed == [glog EXCEPT !.calls = @ + 1, !.fails = @ + 1]
       IN  /\ chat_attempts' = a
           /\ IF ChatExhausted(a)
              THEN /\ glog' = [failed EXCEPT !.res = "unavailable"]
                   /\ err' = "Ollama chat error"
                   /\ pc' = "raise"
              ELSE /\ glog' = [failed EXCEPT !.delays = Append(@, ChatDelay(a))]
                   /\ err' = err
                   /\ pc' = "generate"
    /\ UNCHANGED <<op, outcome, hits, used, ctx>>
    /\ UNCHANGED <<pdfVars, ingestVars, embedVars, processed, store, elog>>
    /\ UNCHANGED chunkVars
    /\ UNCHANGED inserted
    /\ UNCHANGED startVars

\* lines 281-282: an exception the except clause does not name (a response
\* body that is no JSON object, say) leaves chat at once
GenErrors ==
    /\ pc = "generate"
    /\ glog' = [glog EXCEPT !.calls = @ + 1, !.res = "error"]
    /\ err' = "generate error"
    /\ pc' = "raise"
    /\ UNCHANGED <<op, outcome>>
    /\ UNCHANGED <<pdfVars, ingestVars, embedVars, chatVars, processed, store, elog>>
    /\ UNCHANGED chunkVars
    /\ UNCHANGED inserted
    /\ UNCHANGED startVars

\* ---------------------------------------------------------------- module startup
\* the processes that import the module against the same store
Procs == {1, 2}

StartLocals ==
    /\ has_coll = [p \in Procs |-> FALSE]
    /\ has_index = [p \in Procs |-> FALSE]
    /\ list_raised = [p \in Procs |-> FALSE]
    /\ runs = [p \in Procs |-> 0]
    /\ ncreate = [p \in Procs |-> 0]
    /\ nindex = [p \in Procs |-> 0]
    /\ nload = [p \in Procs |-> 0]

\* no process is starting and the store is not looked at
StartOff ==
    /\ spc = [p \in Procs |-> "off"]
    /\ StartLocals
    /\ coll = FALSE /\ vindex = FALSE /\ loaded = FALSE

\* one process about to start; the store is fresh or was set up by an
\* earlier deployment (an index needs its collection)
StartOne ==
    /\ spc = [p \in Procs |-> IF p = 1 THEN "start" ELSE "off"]
    /\ StartLocals
    /\ coll \in BOOLEAN /\ vindex \in BOOLEAN /\ loaded \in BOOLEAN
    /\ vindex => coll
    /\ loaded => vindex

\* every process about to start on a store without the collection
StartAll ==
    /\ spc = [p \in Procs |-> "start"]
    /\ StartLocals
    /\ coll = FALSE /\ vindex = FALSE /\ loaded = FALSE

\* line 134: utility.has_collection(COLLECTION)
StartupHasCollection ==
    \E p \in Procs :
        /\ spc[p] = "start"
        /\ has_coll' = [has_coll EXCEPT ![p] = coll]
        /\ spc' = [spc EXCEPT ![p] = "collection"]
        /\ UNCHANGED <<has_index, list_raised, runs, coll, vindex, loaded, ncreate, nindex, nload>>
        /\ UNCHANGED <<chunkVars, pdfVars, requestVars>>

\* mutant of StartupCreateCollection: the collection is created whatever
\* has_collection returned
StartupCreateCollectionAlways ==
    \E p \in Procs :
        /\ spc[p] = "collection"
        /\ ncreate' = [ncreate EXCEPT ![p] = @ + 1]
        /\ coll' = TRUE
        /\ spc' = [spc EXCEPT ![p] = "indexes"]
        /\ UNCHANGED <<has_coll, has_index, list_raised, runs, vindex, loaded, nindex, nload>>
        /\ UNCHANGED <<chunkVars, pdfVars, requestVars>>

\* mutant of StartupCreateCollection: the existence test is made again at the
\* moment of creation, and a collection made in between is attached
StartupCreateCollectionRechecks ==
    \E p \in Procs :
        /\ spc[p] = "collection" /\ ~has_coll[p]
        /\ ncreate' = IF coll THEN ncreate ELSE [ncreate EXCEPT ![p] = @ + 1]
        /\ coll' = TRUE
        /\ spc' = [spc EXCEPT ![p] = "indexes"]
        /\ UNCHANGED <<has_coll, has_index, list_raised, runs, vindex, loaded, nindex, nload>>
        /\ UNCHANGED <<chunkVars, pdfVars, requestVars>>

\* lines 134-141: has_collection returned False, the schema is built and
\* Collection(name=COLLECTION, schema=schema, ...) is issued
StartupCreateCollection ==
    \E p \in Procs :
        /\ spc[p] = "collection" /\ ~has_coll[p]
        /\ ncreate' = [ncreate EXCEPT ![p] = @ + 1]
        /\ coll' = TRUE
        /\ spc' = [spc EXCEPT ![p] = "indexes"]
        /\ UNCHANGED <<has_coll, has_index, list_raised, runs, vindex, loaded, nindex, nload>>
        /\ UNCHANGED <<chunkVars, pdfVars, requestVars>>

\* lines 142-143: has_collection returned True, Collection(COLLECTION) attaches
StartupAttach ==
    \E p \in Procs :
        /\ spc[p] = "collection" /\ has_coll[p]
        /\ spc' = [spc EXCEPT ![p] = "indexes"]
        /\ UNCHANGED <<has_coll, has_index, list_raised, runs, coll, vindex, loaded, ncreate, nindex, nload>>
        /\ UNCHANGED <<chunkVars, pdfVars, requestVars>>

\* lines 146-149: has_index is whether an index of collection.indexes is on
\* "vector"; an exception while reading them gives has_index = False
StartupListIndexes ==
    \E p \in Procs :
        /\ spc[p] = "indexes"
        /\ \E raised \in BOOLEAN :
              /\ has_index' = [has_index EXCEPT ![p] = IF raised THEN FALSE ELSE vindex]
              /\ list_raised' = [list_raised EXCEPT ![p] = raised]
        /\ spc' = [spc EXCEPT ![p] = "index"]
        /\ UNCHANGED <<has_coll, runs, coll, vindex, loaded, ncreate, nindex, nload>>
        /\ UNCHANGED <<chunkVars, pdfVars, requestVars>>

\* lines 151-155: not has_index, collection.create_index(field_name="vector", ...)
StartupCreateIndex ==
    \E p \in Procs :
        /\ spc[p] = "index" /\ ~has_index[p]
        /\ nindex' = [nindex EXCEPT ![p] = @ + 1]
        /\ vindex' = TRUE
        /\ spc' = [spc EXCEPT ![p] = "load"]
        /\ UNCHANGED <<has_coll, has_index, list_raised, runs, coll, loaded, ncreate, nload>>
        /\ UNCHANGED <<chunkVars, pdfVars, requestVars>>

\* line 151: has_index, nothing is created
StartupKeepIndex ==
    \E p \in Procs :
        /\ spc[p] = "index" /\ has_index[p]
        /\ spc' = [spc EXCEPT ![p] = "load"]
        /\ UNCHANGED <<has_coll, has_index, list_raised, runs, coll, vindex, loaded, ncreate, nindex, nload>>
        /\ UNCHANGED <<chunkVars, pdfVars, requestVars>>

\* line 156: collection.load(), the last statement of the startup
StartupLoad ==
    \E p \in Procs :
        /\ spc[p] = "load"
        /\ nload' = [nload EXCEPT ![p] = @ + 1]
        /\ loaded' = TRUE
        /\ runs' = [runs EXCEPT ![p] = @ + 1]
        /\ spc' = [spc EXCEPT ![p] = "done"]
        /\ UNCHANGED <<has_coll, has_index, list_raised, coll, vindex, ncreate, nindex>>
        /\ UNCHANGED <<chunkVars, pdfVars, requestVars>>

\* the process ends and is started again: the module is imported anew, its
\* globals are fresh, the store keeps what it has
StartupRestart ==
    \E p \in Procs :
        /\ spc[p] = "done"
        /\ runs[p] < MaxStartups
        /\ spc' = [spc EXCEPT ![p] = "start"]
        /\ has_coll' = [has_coll EXCEPT ![p] = FALSE]
        /\ has_index' = [has_index EXCEPT ![p] = FALSE]
        /\ list_raised' = [list_raised EXCEPT ![p] = FALSE]
        /\ UNCHANGED <<runs, coll, vindex, loaded, ncreate, nindex, nload>>
        /\ UNCHANGED <<chunkVars, pdfVars, requestVars>>

\* ----------------------------------------------------------- specifications
ChunkNext == ChunkPack \/ ChunkFlush \/ ChunkFinish

InitChunk == ChunkInit /\ PdfOff /\ ReqOff /\ StartOff

SpecChunk == InitChunk /\ [][ChunkNext]_vars

PdfNext == PdfPrimary \/ PdfSecondary \/ PdfReturn

InitPdf == PdfInit /\ ChunkOff /\ ReqOff /\ StartOff

SpecPdf == InitPdf /\ [][PdfNext]_vars

Next ==
    \/ StartIngestPath \/ StartIngestFiles
    \/ ScanSkip \/ ScanTake \/ UploadSave \/ UploadSaveFails
    \/ LoadTxt \/ LoadPdf \/ LoadUnsupported
    \/ ChunkNoText \/ ChunkToEmbed
    \/ EmbedCallOk \/ EmbedCallFails \/ EmbedCallErrors
    \/ InsertOk \/ InsertRaises \/ CatchInFile \/ Flush
    \/ StartIngestOne \/ OneNoText \/ OneToEmbed \/ OneInsert \/ OneFlush \/ OneCatch
    \/ StartChat \/ SearchOk \/ SearchRaises
    \/ GenAnswer \/ GenEmpty \/ GenFails \/ GenErrors
    \/ Unhandled

Init == ReqInit /\ PdfOff /\ ChunkOff /\ StartOff

Spec == Init /\ [][Next]_vars

\* one process started again and again against the same store
StartupNext ==
    \/ StartupHasCollection \/ StartupCreateCollection \/ StartupAttach
    \/ StartupListIndexes \/ StartupCreateIndex \/ StartupKeepIndex
    \/ StartupLoad \/ StartupRestart

InitStartup == StartOne /\ ChunkOff /\ PdfOff /\ ReqOff

SpecStartup == InitStartup /\ [][StartupNext]_vars

\* the processes start once each, their steps interleaved in any order
RaceNext ==
    \/ StartupHasCollection \/ StartupCreateCollection \/ StartupAttach
    \/ StartupListIndexes \/ StartupCreateIndex \/ StartupKeepIndex
    \/ StartupLoad

InitRace == StartAll /\ ChunkOff /\ PdfOff /\ ReqOff

SpecRace == InitRace /\ [][RaceNext]_vars

\* ------------------------------------------------------ claims on chunk_text
IsPrefix(p, s) == Len(p) <= Len(s) /\ SubSeq(s, 1, Len(p)) = p

\* s[-k:] for k > 0: the last k characters, the whole of s when it is shorter
LastChars(s, k) == SubSeq(s, IF Len(s) > k THEN Len(s) - k + 1 ELSE 1, Len(s))

\* C4: with max_chunks = N set (any integer N >= 0), chunk_text returns at
\* most N chunks.
C4_AtMostMaxChunks ==
    (cpc = "done" /\ IsSet(max_chunks)) => Len(chunks) <= max_chunks[1]

\* C5: when no paragraph is longer than chunk_size, every returned chunk
\* has length <= chunk_size, whatever the overlap.
C5_ChunkWithinSize ==
    (cpc = "done" /\ \A p \in 1..Len(paras) : Len(paras[p]) <= chunk_size)
        => \A c \in 1..Len(chunks) : Len(chunks[c]) <= chunk_size

\* C6 as stated: with overlap > 0 and more than one chunk, the last `overlap`
\* characters of chunk[i] open chunk[i+1], right before the paragraph that
\* triggered the flush.
C6_TailReappears ==
    (cpc = "done" /\ overlap > 0 /\ Len(chunks) > 1)
        => \A i \in 1..(Len(chunks) - 1) :
              IsPrefix(LastChars(chunks[i], overlap) \o <<"\n">> \o trig[i], chunks[i + 1])

\* C6 amended: chunk[i+1] opens with what chunk[i] carries over and the
\* paragraph that triggered the flush.  A chunk longer than `overlap` carries
\* its last `overlap` characters less their leading whitespace, then a
\* newline; a chunk of at most `overlap` characters carries nothing.
Carried(c, ov) == IF ov > 0 /\ Len(c) > ov THEN LStrip(LastChars(c, ov)) ELSE <<>>

ExpectedHead(c, ov, para) ==
    IF Carried(c, ov) = <<>> THEN para ELSE Carried(c, ov) \o <<"\n">> \o para

C6_CarriedTailOpensNext ==
    /\ Len(trig) >= Len(chunks) - 1
    /\ \A i \in 1..(Len(chunks) - 1) :
          IsPrefix(ExpectedHead(chunks[i], overlap, trig[i]), chunks[i + 1])

\* C6 witness: a finished run with a pair whose first chunk is longer than the
\* overlap, and whose carried tail lost leading whitespace to strip()
C6_Witness ==
    /\ cpc = "done"
    /\ overlap > 0
    /\ \E i \in 1..(Len(chunks) - 1) :
          /\ Len(chunks[i]) > overlap
          /\ Len(Carried(chunks[i], overlap)) < overlap

\* ChunkCounts against chunk_text itself: without a ceiling, chunk_text
\* returns no chunk exactly for a text of whitespace only
ChunkCountsSound ==
    (cpc = "done" /\ ~Truthy(max_chunks)) =>
        ((chunks = <<>>) <=> (\A i \in 1..Len(text) : text[i] \in Whitespace))

\* ChunkCountsMax against chunk_text itself: a ceiling that is set and not 0
\* caps the count and still leaves one chunk to a text that is not blank
ChunkCountsMaxSound ==
    (cpc = "done" /\ Truthy(max_chunks)) =>
        /\ Len(chunks) <= max_chunks[1]
        /\ (chunks = <<>>) <=> (\A i \in 1..Len(text) : text[i] \in Whitespace)

\* -------------------------------------------------------- claims on read_pdf
\* C7: the secondary extractor is called exactly when the primary raised or
\* returned fewer than 20 characters after trimming; a secondary text that is
\* non-empty and strictly longer (trimmed) than the primary result is the
\* result; in every other case the result is the primary's text, or the
\* empty text when the primary raised.
PrimaryText == IF prim.st = "ok" THEN prim.text ELSE EmptyText

SecondaryWins ==
    /\ sec.st = "ok"
    /\ TLen(sec.text) > 0
    /\ TLen(TStrip(sec.text)) > TLen(TStrip(PrimaryText))

C7_PdfFallback ==
    ppc = "done" =>
        /\ (sec.st # "none") <=> (prim.st = "raise" \/ TLen(TStrip(prim.text)) < MinPdfChars)
        /\ txt = IF SecondaryWins THEN sec.text ELSE PrimaryText

\* C7 witness: the primary returned under 20 trimmed characters, the secondary
\* 50 characters, and the secondary's text is the result
C7_Witness ==
    /\ ppc = "done"
    /\ prim.st = "ok" /\ TLen(prim.text) > 0 /\ TLen(TStrip(prim.text)) < MinPdfChars
    /\ sec.st = "ok" /\ TLen(sec.text) = 50
    /\ txt = sec.text /\ txt.by = "pymupdf"

\* ------------------------------------------------------ claims on embed_texts
\* the delays base*1, ..., base*k
Ramp(k, base) == [j \in 1..k |-> base * j]

\* C1: per text the backend is called at most 3 times; a text that succeeds
\* on call k+1 after k network failures (k in 0..2) gets the vector of that
\* call after exactly the k delays 2s*1..2s*k; three failures end embed_texts
\* with the 503 "Embeddings error" after exactly 3 calls and the delays 2s, 4s,
\* and no further call is made.
C1_EmbedRetry ==
    /\ [](\A t \in 1..Len(elog) :
            LET r == elog[t]
            IN  /\ r.calls <= 3
                /\ r.res = "pending" => r.delays = Ramp(r.fails, 2)
                /\ r.res = "ok" =>
                      /\ r.fails \in 0..2
                      /\ r.calls = r.fails + 1
                      /\ r.delays = Ramp(r.fails, 2)
                      /\ t <= Len(out) /\ out[t] = Vec(t, r.calls)
                /\ r.fails >= 3 <=> r.res = "unavailable"
                /\ r.res = "unavailable" =>
                      /\ r.calls = 3
                      /\ r.delays = <<2, 4>>
                      /\ t = Len(elog) /\ Len(out) = t - 1
                      /\ pc # "embed")
    /\ [][(/\ elog # <<>>
           /\ Len(elog') = Len(elog)
           /\ elog[Len(elog)].fails = 2
           /\ elog'[Len(elog)].fails = 3) =>
              (pc' = "raise" /\ err' = "Embeddings error")]_vars

\* C1 witness: in one embed_texts call a text succeeded on its third call,
\* and the next text failed three times
C1_Witness ==
    \E t \in 1..Len(elog) :
        /\ elog[t].res = "ok" /\ elog[t].fails = 2 /\ elog[t].delays = <<2, 4>>
        /\ t < Len(elog)
        /\ elog[t + 1].res = "unavailable"

\* ------------------------------------------------- claims on batch ingestion
PipelineErrors == {"ValueError", "read error", "Embeddings error", "embed error", "insert error"}

IsFlush(c) == c.call = "flush"
IsInsert(c) == c.call = "insert"

\* C2: an error raised in one file's pipeline is caught at that file: the
\* file gets one ERROR entry, the count stays, and the loop goes on with the
\* files after it.  Every entry is that of the file in the try block, a plain
\* entry adds the file's chunks to the count and any other entry adds
\* nothing; the report has one entry per processed file, in processing order,
\* and is returned only after every file was gone through.
C2_PerFileIsolation ==
    /\ [](Batch =>
            /\ Len(files) <= Len(processed)
            /\ \A j \in 1..Len(files) : files[j].name = processed[j]
            /\ \A j \in 1..(Len(processed) - 1) : processed[j] < processed[j + 1]
            /\ (pc = "loop" \/ outcome = Report) => Len(files) = Len(processed)
            /\ outcome = Report => idx = nfiles)
    /\ [][(Batch /\ pc = "raise" /\ err \in PipelineErrors) =>
            /\ files' = Append(files, [name |-> idx, note |-> "ERROR"])
            /\ total' = total
            /\ pc' = "loop" /\ idx' = idx /\ nfiles' = nfiles
            /\ outcome' = NoOutcome]_vars
    /\ [][(Batch /\ files' # files) =>
            /\ Len(files') = Len(files) + 1
            /\ SubSeq(files', 1, Len(files)) = files
            /\ files'[Len(files')].name = idx
            /\ files'[Len(files')].note = "" => (parts >= 1 /\ total' = total + parts)
            /\ files'[Len(files')].note # "" => total' = total]_vars

\* C2 witness: the report of a run of three files, the second one listed as
\* an error, the first and the third counted
C2_Witness ==
    /\ Batch /\ outcome = Report
    /\ Len(files) = 3
    /\ files[1].note = "" /\ files[2].note = "ERROR" /\ files[3].note = ""
    /\ total >= 2

\* C3: every batch run that has ended made exactly one flush call, after
\* the last file and after every insert of the run.
C3_FlushExactlyOnce ==
    (Batch /\ pc = "done") =>
        /\ Cardinality({j \in 1..Len(store) : IsFlush(store[j])}) = 1
        /\ IsFlush(store[Len(store)])
        /\ idx = nfiles

\* C8: an exception of either PDF extractor never leaves read_pdf: loading a
\* PDF always goes on to chunking, with the text of the extractor that
\* survived, or the empty text; and in a batch a PDF whose two extractors
\* raised is listed "(sin texto)", with no embedding call and no insert.
InsertsFor(f) == {j \in 1..Len(store) : IsInsert(store[j]) /\ store[j].file = f}

C8_ExtractorFailuresAbsorbed ==
    /\ []((pc = "chunk" /\ kind = ".pdf") =>
            /\ (prim.st = "raise" /\ sec.st = "raise") => raw = EmptyText
            /\ (prim.st = "raise" /\ sec.st = "ok") => raw = sec.text
            /\ (prim.st = "ok" /\ sec.st = "raise") => raw = prim.text)
    /\ []((Batch /\ pc = "loop" /\ kind = ".pdf" /\ prim.st = "raise" /\ sec.st = "raise") =>
            /\ files # <<>>
            /\ files[Len(files)] = [name |-> idx, note |-> "sin texto"]
            /\ elog = <<>>
            /\ InsertsFor(idx) = {})
    /\ [][(pc = "load" /\ kind = ".pdf") => (pc' = "chunk" /\ err' = "none")]_vars

\* C8 witness: a PDF of a batch whose two extractors raised has been listed
C8_Witness ==
    /\ Batch /\ pc = "loop" /\ kind = ".pdf"
    /\ prim.st = "raise" /\ sec.st = "raise"
    /\ files # <<>> /\ files[Len(files)].note = "sin texto"

\* ------------------------------------------------------------ claims on chat
\* C9: the generation backend is called at most twice per request; after a
\* first network failure exactly one delay of 4s is taken and a second call
\* follows; a second failure ends the request with the 503 "Ollama chat
\* error" and no third call; a call that returns content ends the request
\* with that content.
C9_ChatRetry ==
    /\ glog.calls <= 2
    /\ glog.fails <= 2
    /\ glog.delays = IF glog.fails = 0 THEN <<>> ELSE <<4>>
    /\ (glog.res = "pending" /\ glog.fails = 1) => (glog.calls = 1 /\ pc = "generate")
    /\ glog.fails = 2 <=> glog.res = "unavailable"
    /\ glog.res = "unavailable" =>
          /\ glog.calls = 2
          /\ pc \in {"raise", "done"}
          /\ pc = "raise" => err = "Ollama chat error"
          /\ pc = "done" => (outcome.status = 503 /\ outcome.detail = "Ollama chat error")
    /\ glog.res = "ok" =>
          /\ glog.calls = glog.fails + 1
          /\ pc = "done"
          /\ outcome = [status |-> 200, detail |-> "answer", body |-> glog.calls]

\* C9 witness: the first call failed, the second returned the content
C9_Witness ==
    /\ pc = "done" /\ glog.res = "ok"
    /\ glog.fails = 1 /\ glog.calls = 2 /\ glog.delays = <<4>>

\* C10: an answer without content, on the first or on the second call, ends
\* the request at once with the 503 "Ollama no devolvio contenido": no call
\* and no delay follows it.
C10_EmptyNotRetried ==
    glog.res = "empty" =>
        /\ pc \in {"raise", "done"}
        /\ glog.calls = glog.fails + 1
        /\ Len(glog.delays) = glog.fails
        /\ pc = "raise" => err = "Ollama no devolvio contenido"
        /\ pc = "done" => (outcome.status = 503 /\ outcome.detail = "Ollama no devolvio contenido")

\* C10 witness: the first call returned no content, with one attempt left
C10_Witness ==
    /\ pc = "done" /\ glog.res = "empty"
    /\ glog.calls = 1 /\ glog.fails = 0 /\ glog.delays = <<>>
    /\ outcome.status = 503

\* ------------------------------------------------------------------ claim C11
\* C11 as stated: an embedding call that fails with an error that is neither
\* a timeout nor a network-level failure is the last call for its text, is
\* followed by no backoff delay, and ends embed_texts at once.
C11_NonNetworkNotRetried ==
    \A t \in 1..Len(elog) :
        LET r == elog[t]
        IN  r.exc \in {"http status", "KeyError"} =>
                /\ t = Len(elog)
                /\ pc # "embed"
                /\ Len(r.delays) < r.calls

\* C11, amended: an exception that is not a RequestException (the KeyError of
\* a response without "embedding") is the last call for its text: no sleep
\* follows it, no vector is appended, the step that raises it leaves
\* embed_texts with that error; an HTTP error status is a RequestException
\* and, below the ceiling, is followed by a sleep and another call.
C11_UncaughtPropagates ==
    /\ [](\A t \in 1..Len(elog) :
            LET r == elog[t]
            IN  /\ r.exc = "KeyError" <=> r.res = "error"
                /\ r.res = "error" =>
                      /\ t = Len(elog) /\ Len(out) = t - 1
                      /\ pc # "embed"
                      /\ r.calls = r.fails + 1
                      /\ Len(r.delays) = r.fails
                      /\ r.fails < EmbedMaxAttempts
                /\ (r.exc = "http status" /\ r.res = "pending") =>
                      /\ pc = "embed" /\ t = Len(elog)
                      /\ r.fails < EmbedMaxAttempts
                      /\ r.calls = r.fails
                      /\ Len(r.delays) = r.fails)
    /\ [][(/\ elog # <<>>
           /\ Len(elog') = Len(elog)
           /\ elog'[Len(elog)].exc = "KeyError"
           /\ elog[Len(elog)].exc # "KeyError") =>
              /\ pc = "embed" /\ pc' = "raise" /\ err' = "embed error"
              /\ out' = out
              /\ elog'[Len(elog)].calls = elog[Len(elog)].calls + 1
              /\ elog'[Len(elog)].delays = elog[Len(elog)].delays]_vars

\* the second call for the second text raised KeyError, after one caught
\* failure and its sleep, with two attempts of the budget left
C11_Witness ==
    /\ Len(elog) = 2
    /\ elog[2].res = "error" /\ elog[2].calls = 2 /\ elog[2].fails = 1
    /\ elog[2].delays = <<2>>
    /\ pc = "raise" /\ err = "embed error"

\* ------------------------------------------------------------------ claim C12
\* the retry budget of embed_texts or of the generation loop was used up
Exhausted ==
    \/ \E t \in 1..Len(elog) : elog[t].res = "unavailable"
    \/ glog.res = "unavailable"

\* C12: a single-file ingestion request or a chat request in which the
\* embedding or the generation backend exhausted its retry budget ends with
\* the service-unavailable outcome (status 503), not with another error kind.
C12_ExhaustionIsUnavailable ==
    (op \in {"ingest_one", "chat"} /\ pc = "done" /\ Exhausted) =>
        outcome.status = 503

\* ------------------------------------------------------------------ claim C13
\* C13: in every successful answer of chat, used_docs is the number of hits
\* whose text was joined into the context and is at most TOP_K; with zero
\* hits the context is empty, used_docs is 0, and the generation backend is
\* still called.
C13_UsedDocCount ==
    /\ [](op = "chat" /\ pc \in {"generate", "done"} /\ hits >= 0 =>
            /\ used = hits /\ ctx = used
            /\ used <= TOP_K
            /\ (hits = 0 => ctx = 0 /\ used = 0)
            /\ (pc = "done" /\ outcome.status = 200 =>
                    /\ glog.res = "ok" /\ glog.calls >= 1
                    /\ outcome = Answer(glog.calls)))
    /\ [][(pc = "search" /\ hits' = 0) =>
              (pc' = "generate" /\ ctx' = 0 /\ used' = 0)]_vars
    /\ [][(pc = "generate" /\ glog'.calls = glog.calls + 1) =>
              (ctx' = ctx /\ used' = used /\ hits' = hits)]_vars

\* an answer was returned although the search gave no hit
C13_Witness ==
    /\ op = "chat" /\ pc = "done" /\ outcome.status = 200
    /\ hits = 0 /\ ctx = 0 /\ used = 0
    /\ glog.calls = 2

\* ------------------------------------------------------------------ claim C14
\* a step in which process p issues create-collection / create-index
CreatesCollection(p) == ncreate'[p] = ncreate[p] + 1
CreatesIndex(p) == nindex'[p] = nindex[p] + 1

\* every startup ends by loading the collection: a startup is completed by
\* the step that calls load, and by no other
EndsByLoading ==
    /\ [][\A p \in Procs :
            runs'[p] # runs[p] =>
                /\ spc[p] = "load" /\ spc'[p] = "done"
                /\ nload'[p] = nload[p] + 1 /\ loaded']_vars
    /\ [](\A p \in Procs : /\ nload[p] = runs[p]
                           /\ (spc[p] = "done" => loaded /\ runs[p] >= 1))

\* C14 as stated: started again and again against the same store, the
\* startup issues create-collection only when the collection does not exist
\* and create-index only when no index on the vector field exists, so no
\* startup after the first creates a collection or an index; every startup
\* ends by loading the collection.
C14_StartupIdempotent ==
    /\ [][\A p \in Procs :
            /\ CreatesCollection(p) => ~coll
            /\ CreatesIndex(p) => ~vindex
            /\ runs[p] >= 1 => (ncreate'[p] = ncreate[p] /\ nindex'[p] = nindex[p])]_vars
    /\ EndsByLoading

\* C14, amended: create-collection is issued only when the collection does
\* not exist; create-index is issued only when no index on the vector field
\* exists or when reading the collection's indexes raised; so no startup
\* after the first creates a collection, and one creates an index only if
\* reading the indexes raised; every startup ends by loading the collection.
C14_IdempotentUnlessListingRaised ==
    /\ [][\A p \in Procs :
            /\ CreatesCollection(p) => (~coll /\ ~has_coll[p])
            /\ CreatesIndex(p) => (~has_index[p] /\ (~vindex \/ list_raised[p]))
            /\ ncreate'[p] \in {ncreate[p], ncreate[p] + 1}
            /\ nindex'[p] \in {nindex[p], nindex[p] + 1}
            /\ runs[p] >= 1 =>
                  /\ ncreate'[p] = ncreate[p]
                  /\ (CreatesIndex(p) => list_raised[p])]_vars
    /\ [](\A p \in Procs : /\ runs[p] >= 1 => (coll /\ vindex)
                           /\ ncreate[p] <= 1
                           /\ list_raised[p] => ~has_index[p])
    /\ EndsByLoading

\* the third startup has created nothing and loaded, after a first startup
\* that created the collection and the index
C14_Witness ==
    /\ runs[1] = 3 /\ spc[1] = "done"
    /\ ncreate[1] = 1 /\ nindex[1] = 1 /\ nload[1] = 3

\* ------------------------------------------------------------------ claim C15
\* C15: two processes starting concurrently on a store without the collection
\* can both see it absent and both issue create-collection, and likewise both
\* issue create-index; the startup takes no step that prevents this: a
\* process that saw the collection absent (found no index) leaves that
\* position only by issuing the creation, whatever the store holds by then.
C15_RaceUnprevented ==
    /\ [][\A p \in Procs :
            /\ (spc[p] = "collection" /\ ~has_coll[p] /\ spc'[p] # spc[p]) =>
                  (CreatesCollection(p) /\ spc'[p] = "indexes")
            /\ (spc[p] = "index" /\ ~has_index[p] /\ spc'[p] # spc[p]) =>
                  (CreatesIndex(p) /\ spc'[p] = "load")]_vars
    /\ [](\A p \in Procs :
            /\ ncreate[p] = (IF spc[p] \in {"indexes", "index", "load", "done"} /\ ~has_coll[p]
                             THEN 1 ELSE 0)
            /\ nindex[p] = (IF spc[p] \in {"load", "done"} /\ ~has_index[p] THEN 1 ELSE 0))

\* both processes saw the collection absent and both issued create-collection,
\* both found no index and both issued create-index
C15_Witness ==
    /\ \A p \in Procs : ~has_coll[p] /\ ~has_index[p] /\ ~list_raised[p]
    /\ \A p \in Procs : ncreate[p] = 1 /\ nindex[p] = 1
    /\ \A p \in Procs : spc[p] = "done"

\* ------------------------------------------------------------------ claim C16
\* the record of a text whose embed_texts call failed
EmbedFailed(r) == r.res \in {"unavailable", "error"}

\* C16: embed_texts returns exactly one vector per text, in the order of the
\* texts; the texts are worked on one after another, each with its own budget
\* of 3 attempts; a text that fails ends the whole call: nothing is returned
\* and no call is made for the texts after it.
C16_EmbedSequential ==
    /\ [](/\ Len(elog) <= ntexts /\ Len(out) <= ntexts
          /\ \A t \in 1..Len(out) :
                /\ t <= Len(elog) /\ elog[t].res = "ok"
                /\ out[t] = Vec(t, elog[t].calls)
          /\ \A t \in 1..Len(elog) :
                /\ t < Len(elog) => elog[t].res = "ok"
                /\ elog[t].res = "ok" => t <= Len(out)
                /\ elog[t].fails < EmbedMaxAttempts \/ EmbedFailed(elog[t])
          /\ pc = "embed" =>
                /\ Len(elog) = Len(out) + 1
                /\ elog[CurText].res = "pending"
                /\ attempts = elog[CurText].fails
          /\ (\E t \in 1..Len(elog) : EmbedFailed(elog[t])) =>
                /\ Len(out) = Len(elog) - 1
                /\ pc \in {"raise", "loop", "done"})
    /\ [][(pc = "embed" /\ pc' # "embed") =>
              \/ /\ pc' \in {"insert", "search"}
                 /\ Len(out') = ntexts /\ Len(elog') = ntexts
                 /\ \A t \in 1..ntexts : elog'[t].res = "ok"
              \/ /\ pc' = "raise"
                 /\ EmbedFailed(elog'[Len(elog')])
                 /\ out' = out]_vars
    /\ [][pc = "embed" =>
              /\ Len(elog') \in {Len(elog), Len(elog) + 1}
              /\ \A t \in 1..(Len(elog) - 1) : elog'[t] = elog[t]
              /\ elog'[Len(elog)].calls = elog[Len(elog)].calls + 1
              /\ Len(elog') = Len(elog) + 1 => elog'[Len(elog')] = NewCalls]_vars

\* both texts of one call were embedded on their third attempt: four failed
\* calls in all, more than one budget holds
C16_Witness ==
    /\ pc = "insert" /\ ntexts = 2 /\ Len(out) = 2
    /\ elog[1].res = "ok" /\ elog[1].fails = 2
    /\ elog[2].res = "ok" /\ elog[2].fails = 2
    /\ out = <<Vec(1, 3), Vec(2, 3)>>

\* ------------------------------------------------------------------ claim C17
\* ingest_one answered with the report that lists the file by its plain name
OneInserted ==
    /\ op = "ingest_one" /\ pc = "done"
    /\ outcome.status = 200 /\ files = <<Entry(1, "")>>

\* ingest_one up to the ceiling of the count: a missing file ends the request
\* with 404 before anything is read, embedded or stored; a report with the
\* plain name follows exactly one insert and then one flush and counts the
\* chunks; a failure of load_document's dispatch, embed_texts, insert or flush
\* ends the request with an error and no report.
OneContract ==
    /\ (op = "ingest_one" /\ err = "NotFound") =>
          /\ processed = <<>> /\ store = <<>> /\ elog = <<>>
          /\ raw = EmptyText /\ prim = NotCalled /\ sec = NotCalled
          /\ pc \in {"raise", "done"}
          /\ pc = "done" => outcome = Failure("NotFound")
    /\ OneInserted =>
          /\ store = <<InsertCall(1, TRUE), FlushCall(TRUE)>>
          /\ outcome.body = parts /\ inserted = parts /\ parts = Len(out)
          /\ parts >= 1
    /\ (op = "ingest_one" /\ pc = "done" /\ err \notin {"none", "NotFound"}) =>
          /\ err \in {"ValueError", "read error", "Embeddings error", "embed error",
                      "insert error", "flush error"}
          /\ outcome = IngestError
          /\ files = <<>>
    /\ (op = "ingest_one" /\ pc = "done" /\ outcome.status = 200) => err = "none"

\* C17: ingest_one fails with NotFound before any extraction, embedding or
\* store call when the file is missing; on success it makes exactly one insert
\* followed by exactly one flush and reports as inserted the number of chunks,
\* which is at most max_chunks; when the extraction dispatch, the embedding,
\* the insert or the flush fails, the request fails and returns no report.
C17_IngestOne ==
    /\ OneContract
    /\ (OneInserted /\ IsSet(max_chunks)) => outcome.body <= max_chunks[1]

\* ------------------------------------------------------------------ claim C18
\* the file an ingestion request is working on
CurFile == IF op = "ingest_one" THEN 1 ELSE idx

Ingesting == op \in {"ingest_path", "ingest_files", "ingest_one"}

\* C18: in ingest_path, ingest_files and ingest_one, insert is called at most
\* once per file, and only when every chunk of the file has its vector; a
\* file with a chunk whose embedding failed gets no insert call and adds no
\* record, and a file without chunks gets neither an embedding call nor an
\* insert call.
C18_InsertAfterAllEmbedded ==
    /\ [](Ingesting =>
            /\ \A f \in 1..MaxFiles : Cardinality(InsertsFor(f)) <= 1
            /\ \A j \in 1..Len(store) :
                  IsInsert(store[j]) => \E i \in 1..Len(processed) : processed[i] = store[j].file
            /\ (\E t \in 1..Len(elog) : EmbedFailed(elog[t])) =>
                  /\ InsertsFor(CurFile) = {}
                  /\ pc # "insert"
            /\ \A j \in 1..Len(files) :
                  /\ files[j].note = "sin texto" => InsertsFor(files[j].name) = {}
                  /\ files[j].note = "" =>
                        \E k \in InsertsFor(files[j].name) : store[k].ok
            /\ pc = "insert" =>
                  /\ parts >= 1 /\ Len(out) = parts /\ Len(elog) = parts
                  /\ \A t \in 1..parts : elog[t].res = "ok" /\ out[t] = Vec(t, elog[t].calls)
                  /\ InsertsFor(CurFile) = {})
    /\ [][(Ingesting /\ Len(store') > Len(store) /\ IsInsert(store'[Len(store')])) =>
              /\ pc = "insert"
              /\ store'[Len(store')].file = CurFile
              /\ inserted' = inserted + (IF store'[Len(store')].ok THEN parts ELSE 0)]_vars
    /\ [][(Ingesting /\ inserted' # inserted) =>
              (Len(store') > Len(store) /\ IsInsert(store'[Len(store')]))]_vars
    /\ [][(Ingesting /\ files' # files /\ files'[Len(files')].note = "sin texto") =>
              /\ pc = "chunk" /\ raw.core = 0
              /\ elog = <<>> /\ elog' = <<>> /\ out = <<>> /\ out' = <<>>
              /\ store' = store /\ inserted' = inserted]_vars

\* a batch in which the first file was inserted, the second failed on the
\* embedding of its second chunk and the third had no text: one insert call
C18_Witness ==
    /\ Batch /\ pc = "loop" /\ Len(files) = 3
    /\ files[1].note = "" /\ files[2].note = "ERROR" /\ files[3].note = "sin texto"
    /\ store = <<InsertCall(files[1].name, TRUE)>>
    /\ inserted >= 1

\* ------------------------------------------------------------------ claim C19
\* the entries of files that carry the plain file name
PlainEntries == {j \in 1..Len(files) : files[j].note = ""}

\* C19: at the end of every batch run the inserted count of the report is the
\* number of records passed to the insert calls that returned, and it is the
\* sum of the chunk counts of the files listed by their plain name: a plain
\* entry adds the chunk count of its file, an entry "(sin texto)" or "ERROR"
\* adds nothing.
C19_ReportCount ==
    /\ [](Batch =>
            /\ total = inserted
            /\ Cardinality(PlainEntries) <= total
            /\ total <= MaxParts * Cardinality(PlainEntries)
            /\ Cardinality(PlainEntries) =
                  Cardinality({j \in 1..Len(store) : IsInsert(store[j]) /\ store[j].ok}))
    /\ [][(Batch /\ files' # files) =>
              IF files'[Len(files')].note = ""
              THEN /\ parts >= 1 /\ ntexts = parts /\ Len(out) = parts
                   /\ total' = total + parts
                   /\ inserted' = inserted + parts
              ELSE /\ total' = total
                   /\ inserted' = inserted]_vars
    /\ [][(Batch /\ (total' # total \/ inserted' # inserted)) =>
              (files' # files /\ files'[Len(files')].note = "")]_vars
    /\ [][(Batch /\ pc' = "done") => total' = total /\ inserted' = inserted]_vars

\* the report of a run of three files: two chunks of the first were
\* inserted, the second had no text, the third failed
C19_Witness ==
    /\ Batch /\ outcome = Report /\ Len(files) = 3
    /\ files[1].note = "" /\ files[2].note = "sin texto" /\ files[3].note = "ERROR"
    /\ total = 2 /\ inserted = 2

\* ------------------------------------------------------------------ claim C20
\* where chat stands: 1 embedding the question, 2 searching, 3 generating,
\* 4 ended
ChatStage ==
    CASE pc = "embed" -> 1
      [] pc = "search" -> 2
      [] pc = "generate" -> 3
      [] OTHER -> 4

\* C20: chat embeds the question, then searches, then calls the generation
\* backend: the search is issued only after the embedding succeeded, the
\* first generation call only after the search returned; the question is
\* embedded once and the search issued once, also when the generation call is
\* retried; after a failed embedding neither the search nor a generation call
\* is made.
C20_ChatOrder ==
    /\ [](op = "chat" =>
            /\ ntexts = 1 /\ Len(elog) = 1 /\ Len(store) <= 1
            /\ \A j \in 1..Len(store) : store[j].call = "search"
            /\ pc = "embed" => (store = <<>> /\ glog = NewCalls /\ out = <<>>)
            /\ pc = "search" => (store = <<>> /\ glog = NewCalls)
            /\ store # <<>> => (elog[1].res = "ok" /\ out = <<Vec(1, elog[1].calls)>>)
            /\ pc = "generate" => store = <<SearchCall(TRUE)>>
            /\ glog.calls >= 1 => store = <<SearchCall(TRUE)>>
            /\ elog[1].res # "ok" => (store = <<>> /\ glog = NewCalls /\ hits = -1))
    /\ [][op = "chat" =>
              /\ ChatStage' >= ChatStage
              /\ (ChatStage = 1 /\ ChatStage' > 1) =>
                    (IF elog'[1].res = "ok" THEN pc' = "search" ELSE pc' = "raise")
              /\ (ChatStage = 2 /\ ChatStage' > 2) =>
                    (IF store'[1].ok THEN pc' = "generate" ELSE pc' = "raise")
              /\ ChatStage >= 2 => (elog' = elog /\ out' = out)
              /\ ChatStage >= 3 => store' = store]_vars

\* the answer came from the second generation call; the question was embedded
\* by one call and searched once
C20_Witness ==
    /\ op = "chat" /\ pc = "done" /\ outcome = Answer(2)
    /\ glog.calls = 2 /\ glog.fails = 1
    /\ elog = <<[NewCalls EXCEPT !.calls = 1, !.res = "ok"]>>
    /\ store = <<SearchCall(TRUE)>>

====
